---- MODULE Spec2Model ----
(***************************************************************************)
(* A model of the tldr bot (src/bot.py): the duration parser               *)
(* parse_time_ago, the chunker split_text_into_chunks, the embed building  *)
(* loop and the tldr_command handler.                                      *)
(*                                                                         *)
(* A Python str is a sequence of one-character strings.  A timedelta is    *)
(* the record [days, minutes] that Python normalises it to (every duration *)
(* built here is a whole number of minutes, so the seconds field of the    *)
(* timedelta is minutes * 60 and microseconds is 0).                       *)
(***************************************************************************)
EXTENDS Integers, Sequences, FiniteSets, TLC

VARIABLES
    \* ---- parse_time_ago called on its own
    time_str,        \* the argument
    parse_result,    \* [kind |-> "pending"] or the result record
    \* ---- split_text_into_chunks, one loop iteration per step
    text,            \* the argument text
    max_length,      \* the argument max_length
    remaining,       \* local `remaining`
    chunks,          \* local `chunks`
    cpc,             \* "idle" | "call" | "loop" | "returned"
    prev_remaining,  \* `remaining` as the last splitting iteration found it
    split_point,     \* local `split_point` of the last splitting iteration (-1: none)
    \* ---- the embed loop of tldr_command
    embed_chunks,    \* the chunk list the loop runs over
    embeds,          \* local `embeds`
    epc,             \* "idle" | "loop" | "built"
    \* ---- tldr_command
    pc,              \* "idle" | "invoked" | "deferred" | "parsed" | "validated"
                     \* | "fetched" | "generated" | "done"
    start,           \* argument start
    end,             \* argument end
    guild,           \* interaction.guild: "None" or "Guild"
    start_delta,     \* local start_delta
    end_delta,       \* local end_delta
    messages,        \* local messages
    response_text,   \* response.text
    log,             \* the external calls made so far, in order
    outcome,         \* which reply the follow-up carried ("none" before it)
    sent             \* the content of the follow-up send

parse_vars == <<time_str, parse_result>>
chunk_vars == <<text, max_length, remaining, chunks, cpc, prev_remaining, split_point>>
embed_vars == <<embed_chunks, embeds, epc>>
cmd_vars == <<pc, start, end, guild, start_delta, end_delta, messages,
              response_text, log, outcome, sent>>
vars == <<parse_vars, chunk_vars, embed_vars, cmd_vars>>

(***************************************************************************)
(* Program constants.                                                      *)
(***************************************************************************)
EMBED_DESC_LIMIT == 4096
MAX_EMBEDS_PER_MESSAGE == 10
MAX_TIME_RANGE_DAYS == 3

(***************************************************************************)
(* Bounds of the model.                                                    *)
(***************************************************************************)
\* longest time string of the exhaustive parser inputs
MaxTimeLen == 3
\* longest text given to the chunker
MaxTextLen == 6
\* largest max_length given to the chunker
MaxLimit == 5
\* longest chunk list given to the embed loop
MaxChunks == 12
\* most messages one history fetch yields
MaxHistory == 2

(***************************************************************************)
(* Characters and str helpers.                                             *)
(***************************************************************************)
Digits == {"0", "1", "2", "3", "4", "5", "6", "7", "8", "9"}
Whitespace == {" ", "\n", "\t"}
NL == "\n"

DigitVal(c) ==
    CASE c = "0" -> 0 [] c = "1" -> 1 [] c = "2" -> 2 [] c = "3" -> 3
      [] c = "4" -> 4 [] c = "5" -> 5 [] c = "6" -> 6 [] c = "7" -> 7
      [] c = "8" -> 8 [] c = "9" -> 9

\* str.lower() on one character, for the letters the inputs use
Lower(c) ==
    CASE c = "M" -> "m" [] c = "H" -> "h" [] c = "D" -> "d" [] c = "X" -> "x"
      [] OTHER -> c

\* s[a:b] of Python, 0-based and half open, with a and b inside 0..len(s)
Slice(s, a, b) == SubSeq(s, a + 1, b)

\* str.lstrip(): drop the leading whitespace
RECURSIVE lstrip(_)
lstrip(s) ==
    IF s # <<>> /\ Head(s) \in Whitespace THEN lstrip(Tail(s)) ELSE s

\* str.rstrip(): drop the trailing whitespace
RECURSIVE rstrip(_)
rstrip(s) ==
    IF s # <<>> /\ s[Len(s)] \in Whitespace
    THEN rstrip(SubSeq(s, 1, Len(s) - 1))
    ELSE s

\* str.strip()
strip(s) == rstrip(lstrip(s))

\* str.find(ch, lo, hi) in the place of rfind: the lowest such index, or -1
find(s, ch, lo, hi) ==
    LET top == IF hi > Len(s) THEN Len(s) ELSE hi
        hits == {i \in lo..(top - 1) : s[i + 1] = ch}
    IN  IF hits = {} THEN -1 ELSE CHOOSE i \in hits : \A j \in hits : i <= j

\* str.rfind(ch, lo, hi): the highest 0-based index i in lo..hi-1 with
\* s[i] = ch, or -1.  hi is clamped to len(s) as Python's slicing does.
RECURSIVE rfindFrom(_, _, _, _)
rfindFrom(s, ch, lo, i) ==
    IF i < lo THEN -1
    ELSE IF s[i + 1] = ch THEN i
    ELSE rfindFrom(s, ch, lo, i - 1)

rfind(s, ch, lo, hi) ==
    rfindFrom(s, ch, lo, (IF hi > Len(s) THEN Len(s) ELSE hi) - 1)

\* every sequence over S of length at most n
SeqsUpTo(S, n) == UNION {[1..k -> S] : k \in 0..n}

(***************************************************************************)
(* parse_time_ago (src/bot.py 29, 38-70).                                  *)
(***************************************************************************)
\* the number of leading characters \d+ consumes (greedy)
RECURSIVE DigitRun(_)
DigitRun(s) ==
    IF s # <<>> /\ Head(s) \in Digits THEN 1 + DigitRun(Tail(s)) ELSE 0

\* TIME_PATTERN.match(s): ^(\d+)([mhd])$ with re.IGNORECASE.  No unit letter is a
\* digit, so the greedy \d+ never has to give a character back.
\* ($ also matches before a final newline; no caller passes one, the argument
\* is always stripped.)
TimePatternNoAnchor(s) ==
    LET n == DigitRun(s)
    IN  IF n >= 1 /\ Len(s) >= n + 1 /\ Lower(s[n + 1]) \in {"m", "h", "d"}
        THEN [matched |-> TRUE, group1 |-> SubSeq(s, 1, n), group2 |-> s[n + 1]]
        ELSE [matched |-> FALSE]

TIME_PATTERN(s) ==
    LET n == DigitRun(s)
    IN  IF n >= 1 /\ Len(s) = n + 1 /\ Lower(s[n + 1]) \in {"m", "h", "d"}
        THEN [matched |-> TRUE, group1 |-> SubSeq(s, 1, n), group2 |-> s[n + 1]]
        ELSE [matched |-> FALSE]

\* int(digits)
RECURSIVE int(_)
int(ds) ==
    IF ds = <<>> THEN 0
    ELSE int(SubSeq(ds, 1, Len(ds) - 1)) * 10 + DigitVal(ds[Len(ds)])

TimeParseError == [kind |-> "TimeParseError"]
OverflowError == [kind |-> "OverflowError"]

\* timedelta(days=d, minutes=m) for d, m >= 0 with m a number of minutes below one
\* day: Python raises OverflowError when the normalised days exceed 999999999.
timedelta(d, m) ==
    IF d > 999999999 THEN OverflowError
    ELSE [kind |-> "timedelta", days |-> d, minutes |-> m]

parse_time_ago(s) ==
    LET match == TIME_PATTERN(strip(s))
    IN  IF ~match.matched THEN TimeParseError
        ELSE LET value == int(match.group1)
                 unit == Lower(match.group2)
             IN  IF value < 0 THEN TimeParseError
                 ELSE IF unit = "m" THEN timedelta(value \div 1440, value % 1440)
                 ELSE IF unit = "h" THEN timedelta(value \div 24, (value % 24) * 60)
                 ELSE IF unit = "d" THEN timedelta(value, 0)
                 ELSE TimeParseError

\* timedelta comparison
DeltaGT(a, b) ==
    a.days > b.days \/ (a.days = b.days /\ a.minutes > b.minutes)

DeltaGE(a, b) == a = b \/ DeltaGT(a, b)

(***************************************************************************)
(* parse_time_ago on its own: every string over TimeAlphabet of length at  *)
(* most MaxTimeLen, and the longer strings of TimeInputs.                  *)
(***************************************************************************)
TimeAlphabet == {"1", "7", "h", "D", "x", "-", " "}

TimeInputs ==
    { <<"3", "d">>, <<"7", "2", "h">>, <<"4", "3", "2", "0", "m">>,
      <<"4", "3", "2", "1", "m">>, <<"7", "3", "h">>, <<"4", "d">>,
      <<"1", "0", "d">>, <<"0", "m">>, <<"1", "h">>, <<"2", "h">>,
      <<"6", "0", "m">>, <<" ", "2", "H", " ">>, <<"x">>, <<"-", "1", "h">>,
      <<"1">>, <<"1", "0", "0", "0", "0", "0", "0", "0", "0", "0", "d">> }

IdleParse == time_str = <<>> /\ parse_result = [kind |-> "idle"]
IdleChunk ==
    /\ text = <<>> /\ max_length = 0 /\ remaining = <<>> /\ chunks = <<>>
    /\ cpc = "idle" /\ prev_remaining = <<>> /\ split_point = -1
IdleEmbed == embed_chunks = <<>> /\ embeds = <<>> /\ epc = "idle"
IdleCmd ==
    /\ pc = "idle" /\ start = <<>> /\ end = <<>> /\ guild = "None"
    /\ start_delta = [kind |-> "unset"] /\ end_delta = [kind |-> "unset"] /\ messages = <<>>
    /\ response_text = <<>> /\ log = <<>> /\ outcome = "none" /\ sent = [kind |-> "nothing"]

ParseInit ==
    /\ time_str \in SeqsUpTo(TimeAlphabet, MaxTimeLen) \cup TimeInputs
    /\ parse_result = [kind |-> "pending"]
    /\ IdleChunk /\ IdleEmbed /\ IdleCmd

Parse ==
    /\ parse_result.kind = "pending"
    /\ parse_result' = parse_time_ago(time_str)
    /\ UNCHANGED <<time_str, chunk_vars, embed_vars, cmd_vars>>

ParseNext == Parse

ParseSpec == ParseInit /\ [][ParseNext]_vars


(***************************************************************************)
(* C6 as stated: an input that does not match ^\d+[mMhHdD]$ fails with        *)
(* TimeParseError.  ClaimPattern states the pattern on its own, without    *)
(* the model's matcher.                                                    *)
(***************************************************************************)
ClaimPattern(s) ==
    /\ Len(s) >= 2
    /\ \A i \in 1..(Len(s) - 1) : s[i] \in Digits
    /\ s[Len(s)] \in {"m", "M", "h", "H", "d", "D"}

\* s is whitespace, a string matching the pattern, whitespace
ClaimPatternPadded(s) ==
    \E i \in 0..Len(s) : \E j \in i..Len(s) :
        /\ \A k \in 1..i : s[k] \in Whitespace
        /\ \A k \in (j + 1)..Len(s) : s[k] \in Whitespace
        /\ ClaimPattern(SubSeq(s, i + 1, j))

\* C6 (original statement): every input string that does not match
\* ^\d+[mMhHdD]$ makes parse_time_ago fail with TimeParseError.
C6_NonMatchingFails ==
    (parse_result.kind # "pending" /\ ~ClaimPattern(time_str))
        => parse_result = TimeParseError

\* C6 (amended): every input string that, with its leading and trailing
\* whitespace removed, does not match ^\d+[mMhHdD]$ makes parse_time_ago fail with
\* TimeParseError and return no duration.
C6_NonMatchingAfterStripFails ==
    (parse_result.kind # "pending" /\ ~ClaimPatternPadded(time_str))
        => parse_result = TimeParseError

\* a negative sign, a missing unit and an extra character have each been rejected
C6_Witness ==
    /\ parse_result = TimeParseError
    /\ time_str \in {<<"-", "1", "h">>, <<"1", "7">>, <<"1", "h", "x">>}

(***************************************************************************)
(* split_text_into_chunks (src/bot.py 73-100).                             *)
(***************************************************************************)
\* lines 90-95, with the threshold test left out
SplitPointNoThreshold(rem, max) == rfind(rem, NL, 0, max) + 1

\* lines 90-95, with >= for >
SplitPointGe(rem, max) ==
    LET last_newline == rfind(rem, NL, 0, max)
    IN  IF last_newline >= max \div 2 THEN last_newline + 1 ELSE max

\* lines 90-95, one past the limit
SplitPointOffByOne(rem, max) ==
    LET last_newline == rfind(rem, NL, 0, max)
    IN  IF last_newline > max \div 2 THEN last_newline + 1 ELSE max + 1

\* lines 90-95: the split point of one iteration
SplitPoint(rem, max) ==
    LET last_newline == rfind(rem, NL, 0, max)
    IN  IF last_newline > max \div 2 THEN last_newline + 1 ELSE max

\* line 98, skipping one character instead of stripping
RestSkipOne(rem, sp) ==
    Slice(rem, (IF sp + 1 > Len(rem) THEN Len(rem) ELSE sp + 1), Len(rem))

\* line 97: the chunk an iteration emits
Emitted(rem, sp) == rstrip(Slice(rem, 0, sp))

\* line 98: what an iteration leaves
Rest(rem, sp) == lstrip(Slice(rem, sp, Len(rem)))

\* lines 84-98: one pass through the while loop, from (remaining, chunks)
LoopBody(rem, chs, max) ==
    IF rem = <<>>
    THEN [running |-> FALSE, remaining |-> rem, chunks |-> chs,
          prev |-> <<>>, split_point |-> -1]
    ELSE IF Len(rem) <= max
    THEN [running |-> FALSE, remaining |-> rem, chunks |-> Append(chs, rem),
          prev |-> <<>>, split_point |-> -1]
    ELSE LET sp == SplitPoint(rem, max)
         IN  [running |-> TRUE, remaining |-> Rest(rem, sp),
              chunks |-> Append(chs, Emitted(rem, sp)),
              prev |-> rem, split_point |-> sp]

RECURSIVE WhileRemaining(_, _, _)
WhileRemaining(rem, chs, max) ==
    LET st == LoopBody(rem, chs, max)
    IN  IF st.running THEN WhileRemaining(st.remaining, st.chunks, max)
        ELSE st.chunks

\* the whole function
split_text_into_chunks(t, max) ==
    IF Len(t) <= max THEN <<t>> ELSE WhileRemaining(t, <<>>, max)

ChunkAlphabet == {"a", " ", NL}

ChunkInit ==
    /\ text \in SeqsUpTo(ChunkAlphabet, MaxTextLen)
    /\ max_length \in 1..MaxLimit
    /\ remaining = <<>> /\ chunks = <<>> /\ cpc = "call"
    /\ prev_remaining = <<>> /\ split_point = -1
    /\ IdleParse /\ IdleEmbed /\ IdleCmd

\* lines 78-82: the early return, or the loop's set-up
ChunkCall ==
    /\ cpc = "call"
    /\ IF Len(text) <= max_length
       THEN /\ chunks' = <<text>>
            /\ cpc' = "returned"
            /\ UNCHANGED remaining
       ELSE /\ chunks' = <<>>
            /\ remaining' = text
            /\ cpc' = "loop"
    /\ UNCHANGED <<text, max_length, prev_remaining, split_point>>
    /\ UNCHANGED <<parse_vars, embed_vars, cmd_vars>>

\* lines 84-100: one test of the while condition and one pass through its body
ChunkLoop ==
    /\ cpc = "loop"
    /\ LET st == LoopBody(remaining, chunks, max_length)
       IN  /\ remaining' = st.remaining
           /\ chunks' = st.chunks
           /\ cpc' = IF st.running THEN "loop" ELSE "returned"
           /\ prev_remaining' = IF st.running THEN st.prev ELSE prev_remaining
           /\ split_point' = IF st.running THEN st.split_point ELSE split_point
    /\ UNCHANGED <<text, max_length>>
    /\ UNCHANGED <<parse_vars, embed_vars, cmd_vars>>

ChunkNext == ChunkCall \/ ChunkLoop

\* the loop is ordinary sequential code: it keeps running until it returns
ChunkSpec == ChunkInit /\ [][ChunkNext]_vars /\ WF_vars(ChunkNext)


(***************************************************************************)
(* Claims about split_text_into_chunks.                                    *)
(***************************************************************************)
MaxOf(S) == CHOOSE x \in S : \A y \in S : y <= x

\* C4: every chunk returned by split_text_into_chunks(text, limit), limit >= 1,
\* has length <= limit (every chunk emitted so far, in every state of the loop).
C4_ChunksWithinLimit ==
    \A i \in DOMAIN chunks : Len(chunks[i]) <= max_length

\* an unbroken run longer than the limit, with no newline, has been split
C4_Witness ==
    /\ cpc = "returned"
    /\ Len(text) > max_length
    /\ \A i \in DOMAIN text : text[i] = "a"
    /\ Len(chunks) >= 2

\* t is the chunks chs in order, each followed by a (possibly empty) run of whitespace
RECURSIVE CanRebuild(_, _)
CanRebuild(t, chs) ==
    IF chs = <<>> THEN t = <<>>
    ELSE LET c == Head(chs)
         IN  /\ Len(c) <= Len(t)
             /\ SubSeq(t, 1, Len(c)) = c
             /\ \E k \in 0..(Len(t) - Len(c)) :
                    /\ \A j \in (Len(c) + 1)..(Len(c) + k) : t[j] \in Whitespace
                    /\ CanRebuild(SubSeq(t, Len(c) + k + 1, Len(t)), Tail(chs))

\* C5: the input text equals the returned chunks taken in order with some
\* whitespace-only string inserted after each chunk.
C5_ContentPreserved ==
    cpc = "returned" => CanRebuild(text, chunks)

RECURSIVE TotalLen(_)
TotalLen(chs) == IF chs = <<>> THEN 0 ELSE Len(Head(chs)) + TotalLen(Tail(chs))

\* a text was split in several chunks and lost whitespace at a boundary
C5_Witness ==
    /\ cpc = "returned"
    /\ Len(chunks) >= 2
    /\ TotalLen(chunks) < Len(text)
    /\ \E i \in DOMAIN text : text[i] = "a"

\* the 0-based indices below `bound` that hold a newline
NewlinesBelow(rem, bound) ==
    {i \in 0..(bound - 1) : i < Len(rem) /\ rem[i + 1] = NL}

\* C9 (amended) as a function: the last newline among the first `max` characters
\* (0-based index < max) is used when its index is strictly greater than
\* max // 2, and the split is then just after it; otherwise the split is at max.
ExpectedSplit(rem, max) ==
    LET N == NewlinesBelow(rem, max)
    IN  IF N # {} /\ MaxOf(N) > max \div 2 THEN MaxOf(N) + 1 ELSE max

\* C9 as stated, positions counted from 0: the last newline at index <= max is
\* used when its index is >= half of max (max // 2, or max / 2 exactly).
StatedSplit0(rem, max, exact) ==
    LET N == NewlinesBelow(rem, max + 1)
    IN  IF N # {} /\ (IF exact THEN 2 * MaxOf(N) >= max ELSE MaxOf(N) >= max \div 2)
        THEN MaxOf(N) + 1 ELSE max

\* C9 as stated, positions counted from 1: the last newline at position <= max
\* (index <= max - 1) is used when its position is >= half of max.
StatedSplit1(rem, max, exact) ==
    LET N == {i + 1 : i \in NewlinesBelow(rem, max)}
    IN  IF N # {} /\ (IF exact THEN 2 * MaxOf(N) >= max ELSE MaxOf(N) >= max \div 2)
        THEN MaxOf(N) ELSE max

\* C9 (original statement): in each splitting step the last newline at or before
\* position limit is used when its position is at or after half of limit (the
\* split is just after it), otherwise the split is at limit.  The statement is
\* taken in its most lenient form: a step satisfies it when it agrees with any
\* of its readings (positions from 0 or from 1, half as limit // 2 or limit / 2).
C9_SplitAtOrAfterHalf ==
    split_point # -1 =>
        split_point \in
            { StatedSplit0(prev_remaining, max_length, FALSE),
              StatedSplit0(prev_remaining, max_length, TRUE),
              StatedSplit1(prev_remaining, max_length, FALSE),
              StatedSplit1(prev_remaining, max_length, TRUE) }

\* C9 (amended): in each splitting step the chunker finds the last newline among
\* the first limit characters of the remaining text (0-based index < limit); if
\* that index is strictly greater than limit // 2 the split is made just after
\* that newline, otherwise at exactly limit characters.  A newline at index
\* limit // 2 is not used, and a newline at index limit is not looked at.
C9_SplitStrictlyAfterHalf ==
    split_point # -1 =>
        /\ split_point = ExpectedSplit(prev_remaining, max_length)
        /\ (split_point # max_length => prev_remaining[split_point] = NL)

\* a step split just after a newline, short of the limit
C9_Witness ==
    /\ split_point # -1
    /\ split_point < max_length
    /\ prev_remaining[split_point] = NL

\* a step with a newline at index limit // 2 and none later split at the limit
C9_BoundaryWitness ==
    /\ split_point = max_length
    /\ NewlinesBelow(prev_remaining, max_length) # {}
    /\ MaxOf(NewlinesBelow(prev_remaining, max_length)) = max_length \div 2

\* C10: split_text_into_chunks terminates: every pass through the loop that does
\* not end it leaves the remaining text strictly shorter, and the call returns
\* with the remaining text emitted as the last chunk or empty.
C10_Terminates ==
    /\ [][(cpc = "loop" /\ cpc' = "loop") => Len(remaining') < Len(remaining)]_vars
    /\ <>(/\ cpc = "returned"
          /\ (Len(text) > max_length =>
                (remaining = <<>> \/ chunks[Len(chunks)] = remaining)))

\* a call that went through the loop several times has returned
C10_Witness ==
    /\ cpc = "returned"
    /\ Len(chunks) >= 3
    /\ Len(text) > max_length

(***************************************************************************)
(* The 9000 character scenario: a newline every 80 characters, in each of   *)
(* the 80 places the first newline can take, and max_length 4096.          *)
(***************************************************************************)
ScenarioText(phase) == [i \in 1..9000 |-> IF i % 80 = phase THEN NL ELSE "a"]

ScenarioInit ==
    /\ text \in {ScenarioText(phase) : phase \in 0..79}
    /\ max_length = EMBED_DESC_LIMIT
    /\ remaining = <<>> /\ chunks = <<>> /\ cpc = "call"
    /\ prev_remaining = <<>> /\ split_point = -1
    /\ IdleParse /\ IdleEmbed /\ IdleCmd

ScenarioSpec == ScenarioInit /\ [][ChunkNext]_vars

\* the first chunk is at most 4096 long and ends where a newline of the text was
FirstChunkOnNewline ==
    /\ Len(chunks[1]) <= EMBED_DESC_LIMIT
    /\ Len(chunks[1]) < Len(text)
    /\ text[Len(chunks[1]) + 1] = NL

\* C7 (original statement): the 9000 character text with a newline every 80
\* characters, split with limit 4096, gives exactly two chunks, the first ending
\* at or before character 4096 on a newline boundary.
C7_TwoChunks ==
    cpc = "returned" => (Len(chunks) = 2 /\ FirstChunkOnNewline)

\* C7 (amended): that split gives exactly three chunks, the first ending at or
\* before character 4096 on a newline boundary.
C7_ThreeChunks ==
    cpc = "returned" => (Len(chunks) = 3 /\ FirstChunkOnNewline)

\* the scenario's split has returned
C7_Witness ==
    /\ cpc = "returned"
    /\ Len(text) = 9000
    /\ max_length = 4096
    /\ Len(chunks) > 1


(***************************************************************************)
(* The embed loop of tldr_command (src/bot.py 252-265), one iteration per  *)
(* step.  An Embed is [description, title, footer]; "None" is an unset     *)
(* title or footer.                                                        *)
(***************************************************************************)
TITLE == "TL;DR Summary"

\* line 263, without the test for the capped case
HasFooterLastChunkOnly(i, n) == i = n - 1

\* line 263: the 0-based index i, of n chunks, gets the footer
HasFooter(i, n) == i = n - 1 \/ i = MAX_EMBEDS_PER_MESSAGE - 1

\* line 254: chunks[:MAX_EMBEDS_PER_MESSAGE]
Capped(chs) ==
    SubSeq(chs, 1, IF Len(chs) < MAX_EMBEDS_PER_MESSAGE THEN Len(chs)
                   ELSE MAX_EMBEDS_PER_MESSAGE)

\* lines 255-264: the embed of the chunk at 0-based index i
MakeEmbed(i, chs, footer_text) ==
    [description |-> Capped(chs)[i + 1],
     title |-> IF i = 0 THEN TITLE ELSE "None",
     footer |-> IF HasFooter(i, Len(chs)) THEN footer_text ELSE "None"]

\* lines 253-265: the whole loop
BuildEmbeds(chs, footer_text) ==
    [k \in 1..Len(Capped(chs)) |-> MakeEmbed(k - 1, chs, footer_text)]

\* n chunks, the k-th being k copies of c
ChunkList(n, c) == [k \in 1..n |-> [j \in 1..k |-> c]]

EmbedInit ==
    /\ embed_chunks \in {ChunkList(n, c) : n \in 1..MaxChunks, c \in {"a", "b"}}
    /\ embeds = <<>>
    /\ epc = "loop"
    /\ IdleParse /\ IdleChunk /\ IdleCmd

\* one iteration of the for loop, or its end
EmbedStep ==
    /\ epc = "loop"
    /\ IF Len(embeds) < Len(Capped(embed_chunks))
       THEN /\ embeds' = Append(embeds, MakeEmbed(Len(embeds), embed_chunks, "footer"))
            /\ epc' = "loop"
       ELSE /\ epc' = "built"
            /\ UNCHANGED embeds
    /\ UNCHANGED embed_chunks
    /\ UNCHANGED <<parse_vars, chunk_vars, cmd_vars>>

EmbedNext == EmbedStep

EmbedSpec == EmbedInit /\ [][EmbedNext]_vars

\* C8: for a chunk sequence of length n >= 1 and the cap c = 10 the reply holds
\* exactly min(c, n) blocks, the first min(c, n) chunks in order, the title on
\* block 0 alone and the footer on block min(c, n) - 1 alone.
C8_EmbedsCappedTitledFooted ==
    epc = "built" =>
        LET n == Len(embed_chunks)
            k == IF n < 10 THEN n ELSE 10
        IN  /\ Len(embeds) = k
            /\ \A i \in 1..k :
                /\ embeds[i].description = embed_chunks[i]
                /\ (embeds[i].title # "None") <=> (i - 1 = 0)
                /\ (embeds[i].footer # "None") <=> (i - 1 = k - 1)

\* a chunk list longer than the cap has been turned into embeds
C8_Witness ==
    /\ epc = "built"
    /\ Len(embed_chunks) > MAX_EMBEDS_PER_MESSAGE
    /\ Len(embeds) = MAX_EMBEDS_PER_MESSAGE

(***************************************************************************)
(* tldr_command (src/bot.py 145-292).  One step per await: defer, the      *)
(* history fetch, the summarization call, and the synchronous code between *)
(* them; a follow-up send is part of the step that reaches it.  The focus  *)
(* argument only feeds the prompt and the footer's text and is left out.   *)
(***************************************************************************)
max_delta == timedelta(MAX_TIME_RANGE_DAYS, 0)

\* line 174
TooWide(sd) == DeltaGT(sd, max_delta)

\* line 180
Inverted(sd, ed) == DeltaGE(ed, sd)

\* line 200: the filter on a fetched message
Qualifies(m) == ~m.author_bot /\ strip(m.content) # <<>>

RECURSIVE FilterQualifying(_)
FilterQualifying(h) ==
    IF h = <<>> THEN <<>>
    ELSE IF Qualifies(Head(h)) THEN <<Head(h)>> \o FilterQualifying(Tail(h))
    ELSE FilterQualifying(Tail(h))

\* line 203, with the test left out
NoQualifyingNever(msgs) == FALSE

\* line 203: `if not messages`
NoQualifying(msgs) == msgs = <<>>

\* line 211: messages.sort(key=created_at), a stable sort
RECURSIVE InsertByCreatedAt(_, _)
InsertByCreatedAt(m, sorted) ==
    IF sorted = <<>> THEN <<m>>
    ELSE IF Head(sorted).created_at <= m.created_at
    THEN <<Head(sorted)>> \o InsertByCreatedAt(m, Tail(sorted))
    ELSE <<m>> \o sorted

RECURSIVE SortByCreatedAt(_)
SortByCreatedAt(msgs) ==
    IF msgs = <<>> THEN <<>>
    ELSE InsertByCreatedAt(msgs[Len(msgs)],
                           SortByCreatedAt(SubSeq(msgs, 1, Len(msgs) - 1)))

Messages ==
    [author_bot : BOOLEAN, content : {<<"h", "i">>, <<" ">>}, created_at : 1..MaxHistory]

\* what channel.history can yield
Histories == SeqsUpTo(Messages, MaxHistory)

\* what response.text can be: empty, short, and longer than one embed holds
LongSummary == [i \in 1..(EMBED_DESC_LIMIT + 1) |-> IF i % 64 = 0 THEN NL ELSE "a"]

Summaries == {<<>>, <<"-", " ", "o", "k">>, LongSummary}

CmdInit ==
    /\ pc = "invoked"
    /\ start \in TimeInputs
    /\ end \in TimeInputs
    /\ guild \in {"None", "Guild"}
    /\ start_delta = [kind |-> "unset"] /\ end_delta = [kind |-> "unset"]
    /\ messages = <<>> /\ response_text = <<>>
    /\ log = <<>> /\ outcome = "none" /\ sent = [kind |-> "nothing"]
    /\ IdleParse /\ IdleChunk /\ IdleEmbed

\* interaction.followup.send(...) followed by the end of the handler
Finish(lg, kind, content) ==
    /\ log' = Append(lg, "followup")
    /\ outcome' = kind
    /\ sent' = content
    /\ pc' = "done"

\* lines 275-292: the two except clauses
Except(lg, exc) ==
    IF exc = "Forbidden"
    THEN Finish(lg, "PermissionDenied",
                [kind |-> "content",
                 text |-> IF guild = "None" THEN "no permission (DM)"
                          ELSE "no permission (channel)"])
    ELSE Finish(lg, "Unexpected", [kind |-> "content", text |-> exc])

\* line 161
Defer ==
    /\ pc = "invoked"
    /\ log' = Append(log, "defer")
    /\ pc' = "deferred"
    /\ UNCHANGED <<start, end, guild, start_delta, end_delta, messages,
                   response_text, outcome, sent>>
    /\ UNCHANGED <<parse_vars, chunk_vars, embed_vars>>

\* lines 165-170
ParseTimes ==
    /\ pc = "deferred"
    /\ LET s == parse_time_ago(start)
           e == parse_time_ago(end)
       IN  IF s.kind = "TimeParseError"
           THEN /\ Finish(log, "BadTimeFormat", [kind |-> "content", text |-> start])
                /\ UNCHANGED <<start_delta, end_delta>>
           ELSE IF s.kind = "OverflowError"
           THEN /\ Except(log, "OverflowError")
                /\ UNCHANGED <<start_delta, end_delta>>
           ELSE IF e.kind = "TimeParseError"
           THEN /\ Finish(log, "BadTimeFormat", [kind |-> "content", text |-> end])
                /\ start_delta' = s
                /\ UNCHANGED end_delta
           ELSE IF e.kind = "OverflowError"
           THEN /\ Except(log, "OverflowError")
                /\ start_delta' = s
                /\ UNCHANGED end_delta
           ELSE /\ start_delta' = s
                /\ end_delta' = e
                /\ pc' = "parsed"
                /\ UNCHANGED <<log, outcome, sent>>
    /\ UNCHANGED <<start, end, guild, messages, response_text>>
    /\ UNCHANGED <<parse_vars, chunk_vars, embed_vars>>

\* lines 173-185, with the return after the inverted-range reply missing
CheckRangeNoReturn ==
    /\ pc = "parsed"
    /\ IF TooWide(start_delta)
       THEN Finish(log, "RangeTooWide", [kind |-> "content", text |-> "too wide"])
       ELSE IF Inverted(start_delta, end_delta)
       THEN /\ log' = Append(log, "followup")
            /\ outcome' = "InvertedRange"
            /\ sent' = [kind |-> "content", text |-> "inverted"]
            /\ pc' = "validated"
       ELSE /\ pc' = "validated"
            /\ UNCHANGED <<log, outcome, sent>>
    /\ UNCHANGED <<start, end, guild, start_delta, end_delta, messages, response_text>>
    /\ UNCHANGED <<parse_vars, chunk_vars, embed_vars>>

\* lines 173-185
CheckRange ==
    /\ pc = "parsed"
    /\ IF TooWide(start_delta)
       THEN Finish(log, "RangeTooWide", [kind |-> "content", text |-> "too wide"])
       ELSE IF Inverted(start_delta, end_delta)
       THEN Finish(log, "InvertedRange", [kind |-> "content", text |-> "inverted"])
       ELSE /\ pc' = "validated"
            /\ UNCHANGED <<log, outcome, sent>>
    /\ UNCHANGED <<start, end, guild, start_delta, end_delta, messages, response_text>>
    /\ UNCHANGED <<parse_vars, chunk_vars, embed_vars>>

\* lines 188-211: the history fetch, which may raise, then the filter, the
\* empty test and the sort
FetchHistory ==
    /\ pc = "validated"
    /\ \E exc \in {"none", "Forbidden", "HTTPException"} :
       \E result \in (IF exc = "none" THEN Histories ELSE {<<>>}) :
        IF exc # "none"
        THEN /\ Except(Append(log, "history"), exc)
             /\ UNCHANGED messages
        ELSE LET found == FilterQualifying(result)
             IN  IF NoQualifying(found)
                 THEN /\ Finish(Append(log, "history"), "NoMessages",
                                [kind |-> "content", text |-> "no messages"])
                      /\ messages' = found
                 ELSE /\ messages' = SortByCreatedAt(found)
                      /\ log' = Append(log, "history")
                      /\ pc' = "fetched"
                      /\ UNCHANGED <<outcome, sent>>
    /\ UNCHANGED <<start, end, guild, start_delta, end_delta, response_text>>
    /\ UNCHANGED <<parse_vars, chunk_vars, embed_vars>>

\* lines 213-232: the prompt and the summarization call, which may raise (as may
\* reading response.text of a blocked response)
Generate ==
    /\ pc = "fetched"
    /\ \E exc \in {"none", "Exception"} :
       \E result \in (IF exc = "none" THEN Summaries ELSE {<<>>}) :
        IF exc # "none"
        THEN /\ Except(Append(log, "generate"), exc)
             /\ UNCHANGED response_text
        ELSE /\ response_text' = result
             /\ log' = Append(log, "generate")
             /\ pc' = "generated"
             /\ UNCHANGED <<outcome, sent>>
    /\ UNCHANGED <<start, end, guild, start_delta, end_delta, messages>>
    /\ UNCHANGED <<parse_vars, chunk_vars, embed_vars>>

\* lines 235-268: the empty test, the footer, the chunks, the embeds, the send
Reply ==
    /\ pc = "generated"
    /\ IF response_text = <<>>
       THEN Finish(log, "EmptySummary", [kind |-> "content", text |-> "empty"])
       ELSE LET footer_text == <<Len(messages), start, end>>
                chs == split_text_into_chunks(response_text, EMBED_DESC_LIMIT)
            IN  Finish(log, "Summary",
                       [kind |-> "embeds", embeds |-> BuildEmbeds(chs, footer_text)])
    /\ UNCHANGED <<start, end, guild, start_delta, end_delta, messages, response_text>>
    /\ UNCHANGED <<parse_vars, chunk_vars, embed_vars>>

CmdNext == Defer \/ ParseTimes \/ CheckRange \/ FetchHistory \/ Generate \/ Reply

CmdSpec == CmdInit /\ [][CmdNext]_vars


(***************************************************************************)
(* Claims about tldr_command.                                              *)
(***************************************************************************)
Count(lg, x) == Cardinality({i \in DOMAIN lg : lg[i] = x})

Calls(lg) == {lg[i] : i \in DOMAIN lg}

\* the first place of x in lg (x occurs in lg)
FirstAt(lg, x) == CHOOSE i \in DOMAIN lg : lg[i] = x /\ \A j \in 1..(i - 1) : lg[j] # x

\* C1: every invocation first sends the acknowledgment (defer) and afterwards
\* performs exactly one follow-up delivery, on every path: no path ends with
\* zero follow-ups (the handler is at its end only with one sent) and none
\* performs two.
C1_DeferThenOneFollowup ==
    /\ (log # <<>> => log[1] = "defer")
    /\ Count(log, "defer") <= 1
    /\ Count(log, "followup") <= 1
    /\ (pc = "done" =>
          (/\ Count(log, "followup") = 1
           /\ log[Len(log)] = "followup"
           /\ outcome # "none"
           /\ sent.kind # "nothing"))
    /\ (pc # "done" => (Count(log, "followup") = 0 /\ outcome = "none"))

\* the successful path has ended: defer, fetch, summarization, one follow-up
C1_Witness ==
    /\ pc = "done"
    /\ outcome = "Summary"
    /\ log = <<"defer", "history", "generate", "followup">>

\* the permission-denied path has ended with its one follow-up
C1_WitnessPermissionDenied ==
    /\ pc = "done"
    /\ outcome = "PermissionDenied"
    /\ log = <<"defer", "history", "followup">>

\* C2: each external call happens at most once; the history fetch happens only
\* after both time arguments parsed and both range checks passed (none on
\* BadTimeFormat, RangeTooWide, InvertedRange); the summarization call happens
\* only after a fetch that yielded a qualifying message (NoMessages: a fetch but
\* no summarization call).
C2_StagesInOrder ==
    /\ Count(log, "history") <= 1
    /\ Count(log, "generate") <= 1
    /\ ("history" \in Calls(log) =>
            /\ start_delta.kind = "timedelta"
            /\ end_delta.kind = "timedelta"
            /\ ~DeltaGT(start_delta, [days |-> 3, minutes |-> 0])
            /\ DeltaGT(start_delta, end_delta)
            /\ FirstAt(log, "defer") < FirstAt(log, "history"))
    /\ (outcome \in {"BadTimeFormat", "RangeTooWide", "InvertedRange"} =>
            Calls(log) \cap {"history", "generate"} = {})
    /\ ("generate" \in Calls(log) =>
            /\ "history" \in Calls(log)
            /\ FirstAt(log, "history") < FirstAt(log, "generate")
            /\ messages # <<>>
            /\ \A i \in DOMAIN messages :
                 ~messages[i].author_bot /\ messages[i].content # <<" ">>)
    /\ (outcome = "NoMessages" =>
            ("history" \in Calls(log) /\ "generate" \notin Calls(log)))

\* an invocation ended in NoMessages after its fetch, without a summarization call
C2_Witness ==
    /\ pc = "done"
    /\ outcome = "NoMessages"
    /\ log = <<"defer", "history", "followup">>

\* the duration a matching time string states, whatever its size
StatedDuration(s) ==
    LET m == TIME_PATTERN(strip(s))
        v == int(m.group1)
        u == Lower(m.group2)
    IN  IF u = "m" THEN [kind |-> "timedelta", days |-> v \div 1440, minutes |-> v % 1440]
        ELSE IF u = "h"
        THEN [kind |-> "timedelta", days |-> v \div 24, minutes |-> (v % 24) * 60]
        ELSE [kind |-> "timedelta", days |-> v, minutes |-> 0]

\* the outcome C3 states for (start, end), given which of them parse
StatedValidation(start_parses, end_parses) ==
    IF ~start_parses \/ ~end_parses THEN "BadTimeFormat"
    ELSE IF DeltaGT(StatedDuration(start), max_delta) THEN "RangeTooWide"
    ELSE IF DeltaGE(StatedDuration(end), StatedDuration(start)) THEN "InvertedRange"
    ELSE "Passed"

\* validation is over: it passed, or the handler ended before the fetch
ValidationDecided == pc \in {"validated", "fetched", "generated", "done"}

ValidationResult ==
    IF pc = "validated" \/ "history" \in Calls(log) THEN "Passed" ELSE outcome

\* C3: the validation outcome is that of the first failing check: BadTimeFormat
\* if start or end does not parse; otherwise RangeTooWide exactly when the start
\* duration is strictly greater than the maximum; otherwise InvertedRange exactly
\* when the end duration is >= the start duration; otherwise validation passes.
\* ("Parses" is taken either way: the string matches the pattern, or
\* parse_time_ago returns a duration.)
C3_FirstFailingCheck ==
    ValidationDecided =>
        ValidationResult \in
            { StatedValidation(ClaimPatternPadded(start), ClaimPatternPadded(end)),
              StatedValidation(parse_time_ago(start).kind = "timedelta",
                               parse_time_ago(end).kind = "timedelta") }

\* C3, for the arguments whose timedelta Python can build: the stated order holds.
C3_FirstFailingCheckBelowOverflow ==
    (/\ ValidationDecided
     /\ parse_time_ago(start).kind # "OverflowError"
     /\ parse_time_ago(end).kind # "OverflowError") =>
        ValidationResult =
            StatedValidation(ClaimPatternPadded(start), ClaimPatternPadded(end))

====
